---------------------------- MODULE Spec2Model ----------------------------
(***************************************************************************)
(* The (mu, lambda) evolution strategy of src/final/evol_strat.py.         *)
(*                                                                         *)
(* Reals are modelled by integers: genes and sigma are integers, a fitness *)
(* value is an integer number of thousandths, a distance is an integer     *)
(* number of hundredths.  The random generator is an input: every draw is  *)
(* a choice from a small set.  Python indices are 0-based, the model's are *)
(* 1-based.                                                                *)
(***************************************************************************)
EXTENDS Integers, Sequences, FiniteSets, TLC

\* ---- bounds of the model
MaxMu     == 3
MaxLambda == 3
MaxN      == 1
MaxGens   == 2
GeneMax   == 1
SigmaMax  == 2

\* ---- the threshold 0.99 of the termination check, in thousandths
StopThreshold == 990

VARIABLES
    fitness_fn, mu, lambda_, mem_size, mem_range, sigma, tau, max_gens,
    population, cumulative_evals, generation_number, fitnesses, offspring,
    offspring_fitnesses, candidates, parent_idx, selected_indices,
    stdout, pc, error

args == <<fitness_fn, mu, lambda_, mem_size, mem_range, sigma, tau, max_gens>>
vars == <<fitness_fn, mu, lambda_, mem_size, mem_range, sigma, tau, max_gens,
          population, cumulative_evals, generation_number, fitnesses, offspring,
          offspring_fitnesses, candidates, parent_idx, selected_indices,
          stdout, pc, error>>

\* ---- arithmetic helpers
Abs(x) == IF x < 0 THEN -x ELSE x

RECURSIVE SumSeq(_)
SumSeq(s) == IF s = <<>> THEN 0 ELSE s[1] + SumSeq(Tail(s))

RECURSIVE MaxSeq(_)
MaxSeq(s) == IF Len(s) = 1 THEN s[1]
             ELSE LET m == MaxSeq(Tail(s)) IN IF m > s[1] THEN m ELSE s[1]

\* math.sqrt on a sum of squares, in hundredths, rounded down
Sqrt(x) == CHOOSE r \in 0..(100 * x) :
              r * r <= 10000 * x /\ (r + 1) * (r + 1) > 10000 * x

\* math.exp(tau * draw): the draws are the multiples of ln 2, so the factor is
\* 2^(tau*draw); the result is sigma_val times that factor
RECURSIVE Pow2(_)
Pow2(n) == IF n <= 0 THEN 1 ELSE 2 * Pow2(n - 1)

ExpScaled(sigma_val, e) ==
    IF e >= 0 THEN sigma_val * Pow2(e) ELSE sigma_val \div Pow2(-e)

ExpExact(sigma_val, e) == e >= 0 \/ sigma_val % Pow2(-e) = 0

\* ---- individuals: the Python list genes + [sigma], and the object's identity
Member(vals, oid) == [vals |-> vals, oid |-> oid]

\* member[:mem_size]
Genes(member, n) == SubSeq(member.vals, 1, n)

\* ---- the fitness functions
MaxOnesFitness(genes) == 0

\* a fitness with its peak 1.0 at gene sum 1, falling by 0.01 per unit
PeakFitness(genes) == 1000 - 10 * Abs(SumSeq(genes) - 1)

Fitness(fn, genes) ==
    IF fn = "MaxOnes" THEN MaxOnesFitness(genes) ELSE PeakFitness(genes)

FitnessFns == {"MaxOnes", "Peak"}

\* [fitness_fn.fitness(member[:mem_size]) for member in pop]
EvalAll(fn, pop, n) == [i \in 1..Len(pop) |-> Fitness(fn, Genes(pop[i], n))]

\* ---- random draws
\* rng.uniform(a, b) = a + (b - a) * random()
Uniform(a, b) == IF a <= b THEN a..b ELSE b..a

\* rng.gauss(0.0, 1.0), in the units the model keeps
GaussDraws == {-1, 0, 1}

\* rng.sample(range(mu), 2): an ordered pair of distinct indices
Sample2(m) == {c \in (1..m) \X (1..m) : c[1] # c[2]}

\* a tournament that lets the later candidate win a tie
TournamentWinnerLastOnTie(c, fits) ==
    IF fits[c[2]] >= fits[c[1]] THEN c[2] ELSE c[1]

\* ---- tournament: max(candidates, key=lambda i: fitnesses[i])
TournamentWinner(c, fits) ==
    IF fits[c[2]] > fits[c[1]] THEN c[2] ELSE c[1]

\* ---- the child of a parent under the draws zs (genes) and s (sigma)
Child(parent, n, t, zs, s, oid) ==
    LET sigma_val == parent.vals[n + 1]
        genes == [k \in 1..n |-> parent.vals[k] + sigma_val * zs[k]]
    IN  Member(Append(genes, ExpScaled(sigma_val, t * s)), oid)

\* the draws the model follows: the values stay inside its window
ChildInWindow(parent, n, t, zs, s) ==
    LET sigma_val == parent.vals[n + 1]
    IN  /\ \A k \in 1..n : parent.vals[k] + sigma_val * zs[k] \in 0..GeneMax
        /\ ExpExact(sigma_val, t * s)
        /\ ExpScaled(sigma_val, t * s) \in 1..SigmaMax

\* ---- statistics
\* a distance over the whole list, sigma included
PairDistWithSigma(pop, i, j, n) ==
    Sqrt(SumSeq([k \in 1..(n + 1) |->
            (pop[i].vals[k] - pop[j].vals[k]) * (pop[i].vals[k] - pop[j].vals[k])]))

\* math.sqrt(sum((population[i][k] - population[j][k])**2 for k in range(mem_size)))
PairDist(pop, i, j, n) ==
    Sqrt(SumSeq([k \in 1..n |->
            (pop[i].vals[k] - pop[j].vals[k]) * (pop[i].vals[k] - pop[j].vals[k])]))

\* the double loop over i < j, from pair (i, j) on, carrying diversity
RECURSIVE DiversityLoop(_, _, _, _, _, _)
DiversityLoop(pop, m, n, i, j, diversity) ==
    IF i > m THEN diversity
    ELSE IF j > m THEN DiversityLoop(pop, m, n, i + 1, i + 2, diversity)
    ELSE LET dist == PairDist(pop, i, j, n)
         IN  DiversityLoop(pop, m, n, i, j + 1,
                           IF dist > diversity THEN dist ELSE diversity)

Diversity(pop, m, n) == DiversityLoop(pop, m, n, 1, 2, 0)

\* the loop indexes population[j] for every j < mu (when there is a k)
DiversityIndexError(pop, m, n) == n >= 1 /\ m >= 2 /\ Len(pop) < m

\* a termination check that also stops at a mean of exactly 0.99
ShouldStopAtLeast(fits, m) == SumSeq(fits) >= StopThreshold * m

\* average > 0.99, with average = sum(fitnesses) / mu; mu is positive wherever
\* the check is reached (max(fitnesses) has raised on an empty list before)
ShouldStop(fits, m) == SumSeq(fits) > StopThreshold * m

\* ---- truncation selection
\* a descending sort that reverses the order of equal keys (an ascending sort,
\* reversed)
RECURSIVE InsertDescUnstable(_, _)
InsertDescUnstable(sorted, x) ==
    IF sorted = <<>> THEN <<x>>
    ELSE IF sorted[1][1] > x[1]
         THEN <<sorted[1]>> \o InsertDescUnstable(Tail(sorted), x)
    ELSE <<x>> \o sorted

\* list.sort(key=..., reverse=True) is stable: an element goes after every
\* element whose key is at least its own
RECURSIVE InsertDesc(_, _)
InsertDesc(sorted, x) ==
    IF sorted = <<>> THEN <<x>>
    ELSE IF sorted[1][1] >= x[1] THEN <<sorted[1]>> \o InsertDesc(Tail(sorted), x)
    ELSE <<x>> \o sorted

RECURSIVE SortDesc(_)
SortDesc(s) ==
    IF s = <<>> THEN <<>>
    ELSE InsertDesc(SortDesc(SubSeq(s, 1, Len(s) - 1)), s[Len(s)])

\* selected_indices = [i for _, i in indexed[:mu]]
SelectedIndices(off_fits, m) ==
    LET indexed == [i \in 1..Len(off_fits) |-> <<off_fits[i], i>>]
        ranked  == SortDesc(indexed)
        keep    == IF m < Len(ranked) THEN (IF m < 0 THEN 0 ELSE m) ELSE Len(ranked)
    IN  [p \in 1..keep |-> ranked[p][2]]

\* ---- the state on entry to evolution_strategy
Init ==
    /\ fitness_fn \in FitnessFns
    /\ mu \in 0..MaxMu
    /\ lambda_ \in 0..MaxLambda
    /\ mem_size \in 0..MaxN
    /\ mem_range \in {<<0, 1>>, <<0, 0>>}
    /\ sigma = 1
    /\ tau \in {0, 1}
    /\ max_gens \in 0..MaxGens
    /\ population = <<>>
    /\ cumulative_evals = 0
    /\ generation_number = 0
    /\ fitnesses = <<>>
    /\ offspring = <<>>
    /\ offspring_fitnesses = <<>>
    /\ candidates = <<>>
    /\ parent_idx = 0
    /\ selected_indices = <<>>
    /\ stdout = <<>>
    /\ pc = "start"
    /\ error = "none"

\* init_population and cumulative_evals = 0
InitPopulation ==
    /\ pc = "start"
    /\ \E genes \in [1..mu -> [1..mem_size -> Uniform(mem_range[1], mem_range[2])]] :
          population' = [i \in 1..mu |-> Member(Append(genes[i], sigma), <<0, i>>)]
    /\ cumulative_evals' = 0
    /\ pc' = "loop"
    /\ UNCHANGED <<args, generation_number, fitnesses, offspring, offspring_fitnesses,
                   candidates, parent_idx, selected_indices, stdout, error>>

\* the head of a generation: the parents are evaluated
EvalParents ==
    /\ pc = "loop"
    /\ generation_number < max_gens
    /\ generation_number' = generation_number + 1
    /\ fitnesses' = EvalAll(fitness_fn, population, mem_size)
    /\ cumulative_evals' = cumulative_evals + mu
    /\ offspring' = <<>>
    /\ pc' = "offspring"
    /\ UNCHANGED <<args, population, offspring_fitnesses, candidates, parent_idx,
                   selected_indices, stdout, error>>

\* rng.sample(range(mu), 2) with fewer than two parents
SampleRaises ==
    /\ pc = "offspring"
    /\ Len(offspring) < lambda_
    /\ mu < 2
    /\ pc' = "raised"
    /\ error' = "ValueError"
    /\ UNCHANGED <<args, population, cumulative_evals, generation_number, fitnesses,
                   offspring, offspring_fitnesses, candidates, parent_idx,
                   selected_indices, stdout>>

\* fitnesses[i] for a candidate index beyond the fitness list
TournamentRaises ==
    /\ pc = "offspring"
    /\ Len(offspring) < lambda_
    /\ \E c \in Sample2(mu) :
          /\ c[1] > Len(fitnesses) \/ c[2] > Len(fitnesses)
          /\ candidates' = c
    /\ pc' = "raised"
    /\ error' = "IndexError"
    /\ UNCHANGED <<args, population, cumulative_evals, generation_number, fitnesses,
                   offspring, offspring_fitnesses, parent_idx, selected_indices, stdout>>

\* one pass of the offspring loop: tournament, mutation, append
MakeChild ==
    /\ pc = "offspring"
    /\ Len(offspring) < lambda_
    /\ \E c \in Sample2(mu), zs \in [1..mem_size -> GaussDraws], s \in GaussDraws :
          /\ c[1] <= Len(fitnesses) /\ c[2] <= Len(fitnesses)
          /\ LET w == TournamentWinner(c, fitnesses)
             IN  /\ ChildInWindow(population[w], mem_size, tau, zs, s)
                 /\ candidates' = c
                 /\ parent_idx' = w
                 /\ offspring' = Append(offspring,
                        Child(population[w], mem_size, tau, zs, s,
                              <<generation_number, Len(offspring) + 1>>))
    /\ UNCHANGED <<args, population, cumulative_evals, generation_number, fitnesses,
                   offspring_fitnesses, selected_indices, stdout, pc, error>>

\* an offspring evaluation that is left out of the count
EvalOffspringUncounted ==
    /\ pc = "offspring"
    /\ Len(offspring) >= lambda_
    /\ offspring_fitnesses' = EvalAll(fitness_fn, offspring, mem_size)
    /\ pc' = "stats"
    /\ UNCHANGED <<args, population, cumulative_evals, generation_number, fitnesses,
                   offspring, candidates, parent_idx, selected_indices, stdout, error>>

\* the offspring are evaluated
EvalOffspring ==
    /\ pc = "offspring"
    /\ Len(offspring) >= lambda_
    /\ offspring_fitnesses' = EvalAll(fitness_fn, offspring, mem_size)
    /\ cumulative_evals' = cumulative_evals + lambda_
    /\ pc' = "stats"
    /\ UNCHANGED <<args, population, generation_number, fitnesses, offspring,
                   candidates, parent_idx, selected_indices, stdout, error>>

\* max(fitnesses) of an empty list, or population[j] beyond the population
StatsRaises ==
    /\ pc = "stats"
    /\ IF fitnesses = <<>>
          THEN error' = "ValueError"
          ELSE DiversityIndexError(population, mu, mem_size) /\ error' = "IndexError"
    /\ pc' = "raised"
    /\ UNCHANGED <<args, population, cumulative_evals, generation_number, fitnesses,
                   offspring, offspring_fitnesses, candidates, parent_idx,
                   selected_indices, stdout>>

\* the statistics of the generation and its telemetry line
Stats ==
    /\ pc = "stats"
    /\ fitnesses # <<>>
    /\ ~DiversityIndexError(population, mu, mem_size)
    /\ stdout' = Append(stdout,
          [mu |-> mu, lambda_ |-> lambda_, tau |-> tau,
           generation_number |-> generation_number,
           cumulative_evals |-> cumulative_evals,
           max_fitness |-> MaxSeq(fitnesses),
           average |-> <<SumSeq(fitnesses), mu>>,
           diversity |-> Diversity(population, mu, mem_size)])
    /\ pc' = "check"
    /\ UNCHANGED <<args, population, cumulative_evals, generation_number, fitnesses,
                   offspring, offspring_fitnesses, candidates, parent_idx,
                   selected_indices, error>>

\* if average > 0.99: break, and the return after the loop
Break ==
    /\ pc = "check"
    /\ ShouldStop(fitnesses, mu)
    /\ pc' = "returned"
    /\ UNCHANGED <<args, population, cumulative_evals, generation_number, fitnesses,
                   offspring, offspring_fitnesses, candidates, parent_idx,
                   selected_indices, stdout, error>>

\* truncation selection: the best mu offspring are the next parents
Truncate ==
    /\ pc = "check"
    /\ ~ShouldStop(fitnesses, mu)
    /\ selected_indices' = SelectedIndices(offspring_fitnesses, mu)
    /\ population' = [p \in 1..Len(selected_indices') |-> offspring[selected_indices'[p]]]
    /\ pc' = "loop"
    /\ UNCHANGED <<args, cumulative_evals, generation_number, fitnesses, offspring,
                   offspring_fitnesses, candidates, parent_idx, stdout, error>>

\* the loop is exhausted: return population
Return ==
    /\ pc = "loop"
    /\ generation_number >= max_gens
    /\ pc' = "returned"
    /\ UNCHANGED <<args, population, cumulative_evals, generation_number, fitnesses,
                   offspring, offspring_fitnesses, candidates, parent_idx,
                   selected_indices, stdout, error>>

Next ==
    \/ InitPopulation
    \/ EvalParents
    \/ SampleRaises
    \/ TournamentRaises
    \/ MakeChild
    \/ EvalOffspring
    \/ StatsRaises
    \/ Stats
    \/ Break
    \/ Truncate
    \/ Return

Spec == Init /\ [][Next]_vars

\* the interpreter always takes the next step of the single thread
FairSpec == Spec /\ WF_vars(Next)

\* ---- the hyperparameters the specification calls valid
ValidArgs ==
    /\ mu >= 1 /\ lambda_ >= 1 /\ mem_size >= 1 /\ max_gens >= 1
    /\ mem_range[1] < mem_range[2]
    /\ tau > 0

\* the run is at the top of a generation, just after a truncation selection, or
\* has returned
AtPopulationBoundary == pc \in {"loop", "returned"}

\* C1: with positive mu, lambda, N and max_gens (lambda below, at or above mu),
\* the parent population holds exactly mu individuals at the top of every
\* generation, after every truncation selection and when it is returned.
C1_PopulationSize ==
    (mu >= 1 /\ lambda_ >= 1 /\ mem_size >= 1 /\ max_gens >= 1 /\ AtPopulationBoundary)
        => Len(population) = mu

\* the count a run has reached where it stands: both evaluations of the
\* generation are counted once the offspring are evaluated
CountAt ==
    IF pc = "offspring"
        THEN (generation_number - 1) * (mu + lambda_) + mu
        ELSE generation_number * (mu + lambda_)

\* C2: the cumulative evaluation count starts at 0, never decreases and grows by
\* mu + lambda per generation: every telemetry line of generation g, the line of
\* an early-terminating generation included, reports g * (mu + lambda).
C2_EvalCount ==
    /\ [](pc = "start" => cumulative_evals = 0)
    /\ [](pc \notin {"start", "raised"} => cumulative_evals = CountAt)
    /\ [](\A k \in 1..Len(stdout) :
            stdout[k].cumulative_evals = stdout[k].generation_number * (mu + lambda_))
    /\ [][cumulative_evals' >= cumulative_evals]_vars

\* the mean of the fitness values of the parents is strictly above 0.99
MeanAbove(fits) == fits # <<>> /\ 100 * SumSeq(fits) > 99 * 1000 * Len(fits)

\* C2 witness: a second generation has terminated the run early and its line
\* has been emitted
C2_Witness ==
    /\ pc = "returned"
    /\ Len(stdout) = 2
    /\ MeanAbove(fitnesses)
    /\ lambda_ >= 1
    /\ stdout[2].cumulative_evals = 2 * (mu + lambda_)

\* C3: the run executes at most max_gens generations (the generation numbers
\* reported lie in 1..max_gens and none is reported twice) and reaches its
\* return after finitely many steps.
C3_TerminationBound ==
    /\ [](\A k \in 1..Len(stdout) :
            /\ stdout[k].generation_number \in 1..max_gens
            /\ \A l \in 1..Len(stdout) :
                  stdout[k].generation_number = stdout[l].generation_number => k = l)
    /\ (ValidArgs => <>(pc = "returned"))

\* the hyperparameters the specification calls malformed
Malformed ==
    \/ mu <= 0 \/ lambda_ <= 0 \/ mem_size <= 0 \/ max_gens <= 0
    \/ mem_range[1] >= mem_range[2]
    \/ tau <= 0

\* C5: malformed hyperparameters stop the run before the first generation: no
\* fitness is evaluated, no telemetry line is emitted, no population is returned.
C5_FailFast ==
    Malformed =>
        /\ generation_number = 0
        /\ fitnesses = <<>>
        /\ stdout = <<>>
        /\ pc # "returned"

\* C9: under valid hyperparameters no step raises: every tournament draws two
\* distinct candidates and every candidate index exists in the population and in
\* the fitness list.
C9_NoFailure ==
    ValidArgs =>
        /\ pc # "raised"
        /\ (pc = "offspring" /\ Len(offspring) < lambda_) =>
              /\ Sample2(mu) # {}
              /\ \A c \in Sample2(mu) :
                    {c[1], c[2]} \subseteq (DOMAIN population \cap DOMAIN fitnesses)

Kept == {selected_indices[p] : p \in DOMAIN selected_indices}

Ranks(i, j) ==
    \/ offspring_fitnesses[i] > offspring_fitnesses[j]
    \/ offspring_fitnesses[i] = offspring_fitnesses[j] /\ i < j

C8_Tournament ==
    (pc \in {"offspring", "stats", "check"} /\ offspring # <<>>) =>
        /\ candidates \in (1..mu) \X (1..mu)
        /\ candidates[1] # candidates[2]
        /\ parent_idx \in {candidates[1], candidates[2]}
        /\ fitnesses[parent_idx] >= fitnesses[candidates[1]]
        /\ fitnesses[parent_idx] >= fitnesses[candidates[2]]
        /\ fitnesses[candidates[1]] = fitnesses[candidates[2]]
              => parent_idx = candidates[1]
        /\ ~(\A j \in (DOMAIN fitnesses) \ {parent_idx} :
                fitnesses[parent_idx] < fitnesses[j])
        /\ \E zs \in [1..mem_size -> GaussDraws], s \in GaussDraws :
              offspring[Len(offspring)] =
                  Child(population[parent_idx], mem_size, tau, zs, s,
                        <<generation_number, Len(offspring)>>)

\* C8 witness: a tournament between two equally fit candidates, drawn with the
\* higher index first, in a population with a strictly lowest parent
C8_Witness ==
    /\ pc = "offspring" /\ offspring # <<>>
    /\ candidates[1] > candidates[2]
    /\ fitnesses[candidates[1]] = fitnesses[candidates[2]]
    /\ parent_idx = candidates[1]
    /\ \E l \in DOMAIN fitnesses :
          \A j \in (DOMAIN fitnesses) \ {l} : fitnesses[l] < fitnesses[j]

\* the gene vector of a member: its first N entries
GeneVector(member) == [k \in 1..mem_size |-> member.vals[k]]

EuclideanDistance(x, y) ==
    Sqrt(SumSeq([k \in DOMAIN x |-> (x[k] - y[k]) * (x[k] - y[k])]))

\* the distances between two distinct parents
PairDistances ==
    {EuclideanDistance(GeneVector(population[p[1]]), GeneVector(population[p[2]])) :
        p \in {q \in (DOMAIN population) \X (DOMAIN population) : q[1] < q[2]}}

=============================================================================
